---- MODULE Spec2Model ----
(***************************************************************************)
(* A model of primesieve's CpuInfo (src/src/CpuInfo.cpp): the string and   *)
(* file parsers of the Linux/sysfs probe, the sysfs CpuInfo::init(), the   *)
(* Windows CpuInfo::init(), the constructor's try/catch and the const      *)
(* accessors and has* predicates.                                          *)
(*                                                                         *)
(* A std::string is a sequence of one-character strings.  A file is a      *)
(* record [open, data]: open = FALSE is a file ifstream cannot open.       *)
(*                                                                         *)
(* A size_t is 64 bits wide.  Its value v is represented by the integer    *)
(* congruent to v modulo 2^64 that lies nearest to 0: 0, 1, 2, ... stand   *)
(* for themselves and -1, -2, ... stand for 2^64 - 1, 2^64 - 2, ...  Sums  *)
(* and differences of representatives represent the wrapped sums and       *)
(* differences; unsigned comparisons are ULe and UGe below.                *)
(***************************************************************************)
EXTENDS Integers, Sequences, FiniteSets, TLC

VARIABLES
  fs,               \* the files the sysfs probe reads: path -> [open, data]
  win,              \* what the Windows API calls return
  cpuName_, cpuCores_, cpuThreads_,
  l1CacheSize_, l2CacheSize_, l3CacheSize_,
  l2Sharing_, l3Sharing_, threadsPerCore_,
  error_,
  pc,               \* position in the constructor / probe
  i,                \* loop index of the probe's for loop
  level, type,      \* locals of the sysfs probe's loop body
  ret               \* what the last call returned to its caller

fields == <<cpuName_, cpuCores_, cpuThreads_, l1CacheSize_, l2CacheSize_,
            l3CacheSize_, l2Sharing_, l3Sharing_, threadsPerCore_, error_>>

vars == <<fs, win, cpuName_, cpuCores_, cpuThreads_, l1CacheSize_,
          l2CacheSize_, l3CacheSize_, l2Sharing_, l3Sharing_,
          threadsPerCore_, error_, pc, i, level, type, ret>>

---------------------------------------------------------------------------
(* Characters, unsigned comparison, exceptions                             *)

DigitChars == {"0", "1", "2", "3", "4", "5", "6", "7", "8", "9"}

HexChars == DigitChars \cup {"a", "b", "c", "d", "e", "f",
                             "A", "B", "C", "D", "E", "F"}

\* isspace() of the characters that occur in the files
SpaceChars == {" ", "\n"}

DigitValue(c) ==
  CASE c = "0" -> 0 [] c = "1" -> 1 [] c = "2" -> 2 [] c = "3" -> 3
    [] c = "4" -> 4 [] c = "5" -> 5 [] c = "6" -> 6 [] c = "7" -> 7
    [] c = "8" -> 8 [] c = "9" -> 9
    [] c \in {"a", "A"} -> 10 [] c \in {"b", "B"} -> 11
    [] c \in {"c", "C"} -> 12 [] c \in {"d", "D"} -> 13
    [] c \in {"e", "E"} -> 14 [] c \in {"f", "F"} -> 15

\* a <= b and a >= b on size_t (see the representation above)
ULe(a, b) == IF (a >= 0) = (b >= 0) THEN a <= b ELSE a >= 0

UGe(a, b) == ULe(b, a)

\* A call returns normally with a value, or throws an exception of a kind.
Ok(v) == [exc |-> "none", val |-> v]

Throw(kind) == [exc |-> kind, val |-> 0]

\* The exception classes derived from std::exception that the probe can throw
StdExceptions == {"invalid_argument", "out_of_range"}

\* e.what()
What(kind) ==
  CASE kind = "invalid_argument" -> "stoul"
    [] kind = "out_of_range" -> "vector::_M_range_check"
    [] OTHER -> "std::exception"

---------------------------------------------------------------------------
(* std::string and std::vector operations                                  *)

\* s.find(c): the first position (from 1) of c in s, 0 for npos
RECURSIVE FindFrom(_, _, _)
FindFrom(s, c, k) ==
  IF k > Len(s) THEN 0
  ELSE IF s[k] = c THEN k
  ELSE FindFrom(s, c, k + 1)

Find(s, c) == FindFrom(s, c, 1)

\* s.find_first_not_of(c)
RECURSIVE FindNotFrom(_, _, _)
FindNotFrom(s, c, k) ==
  IF k > Len(s) THEN 0
  ELSE IF s[k] # c THEN k
  ELSE FindNotFrom(s, c, k + 1)

FindFirstNotOf(s, c) == FindNotFrom(s, c, 1)

\* s.substr(k - 1): the rest of s from position k (from 1)
SubstrFrom(s, k) == SubSeq(s, k, Len(s))

\* s.substr(0, n)
Prefix(s, n) == SubSeq(s, 1, IF n < Len(s) THEN n ELSE Len(s))

\* values.at(k), k from 0: throws std::out_of_range past the end
At(values, k) ==
  IF k < Len(values) THEN Ok(values[k + 1]) ELSE Throw("out_of_range")

\* The number of leading characters of s that are digits of the base
RECURSIVE DigitRun(_, _, _)
DigitRun(s, base, k) ==
  IF k > Len(s) THEN Len(s)
  ELSE IF s[k] \in HexChars /\ DigitValue(s[k]) < base
       THEN DigitRun(s, base, k + 1)
       ELSE k - 1

RECURSIVE NumberOf(_, _)
NumberOf(ds, base) ==
  IF ds = <<>> THEN 0
  ELSE NumberOf(SubSeq(ds, 1, Len(ds) - 1), base) * base
       + DigitValue(ds[Len(ds)])

\* std::stoul(str, nullptr, base): the number written by the leading digits
\* of str; std::invalid_argument when str starts with no digit.  (The
\* strings passed here hold no sign, no leading space and no 0x prefix, and
\* their numbers are far below ULONG_MAX, where stoul throws out_of_range.)
stoul(str, base) ==
  LET n == DigitRun(str, base, 1) IN
  IF n = 0 THEN Throw("invalid_argument")
  ELSE Ok(NumberOf(SubSeq(str, 1, n), base))

\* split(s, delimiter): the tokens std::getline(stream, token, delimiter)
\* extracts until the stream is at its end
RECURSIVE split(_, _)
split(s, delimiter) ==
  IF s = <<>> THEN <<>>
  ELSE LET k == Find(s, delimiter) IN
       IF k = 0 THEN <<s>>
       ELSE <<SubSeq(s, 1, k - 1)>> \o split(SubstrFrom(s, k + 1), delimiter)

---------------------------------------------------------------------------
(* File parsers of the sysfs probe                                         *)

\* trimmer >> str: skip leading whitespace, then read up to the next
\* whitespace or the end
RECURSIVE SkipSpace(_)
SkipSpace(s) ==
  IF s # <<>> /\ Head(s) \in SpaceChars THEN SkipSpace(Tail(s)) ELSE s

RECURSIVE TakeWord(_)
TakeWord(s) ==
  IF s = <<>> \/ Head(s) \in SpaceChars THEN <<>>
  ELSE <<Head(s)>> \o TakeWord(Tail(s))

getString(filename) ==
  IF fs[filename].open THEN TakeWord(SkipSpace(fs[filename].data))
  ELSE <<>>

\* getValue without its test for an empty string
getValue_noEmptyTest(filename) ==
  LET str == getString(filename)
      r == stoul(str, 10)
      back == IF str = <<>> THEN "" ELSE str[Len(str)]
      v1 == IF back = "K" THEN r.val * 1024 ELSE r.val
      v2 == IF back = "M" THEN v1 * (1024 * 1024) ELSE v1
      v3 == IF back = "G" THEN v2 * (1024 * 1024 * 1024) ELSE v2
  IN IF r.exc # "none" THEN r ELSE Ok(v3)

\* getValue scaling a G suffix like an M suffix
getValue_gigaAsMega(filename) ==
  LET str == getString(filename) IN
  IF str = <<>> THEN Ok(0)
  ELSE LET r == stoul(str, 10)
           back == str[Len(str)]
           v1 == IF back = "K" THEN r.val * 1024 ELSE r.val
           v2 == IF back = "M" THEN v1 * (1024 * 1024) ELSE v1
           v3 == IF back = "G" THEN v2 * (1024 * 1024) ELSE v2
       IN IF r.exc # "none" THEN r ELSE Ok(v3)

\* size_t getValue(filename): a number with an optional K, M or G suffix
getValue(filename) ==
  LET str == getString(filename) IN
  IF str = <<>> THEN Ok(0)
  ELSE LET r == stoul(str, 10)
           back == str[Len(str)]
           v1 == IF back = "K" THEN r.val * 1024 ELSE r.val
           v2 == IF back = "M" THEN v1 * (1024 * 1024) ELSE v1
           v3 == IF back = "G" THEN v2 * (1024 * 1024 * 1024) ELSE v2
       IN IF r.exc # "none" THEN r ELSE Ok(v3)

ProcCpuInfo == "/proc/cpuinfo"

modelName == <<"m", "o", "d", "e", "l", " ", "n", "a", "m", "e">>

\* The number of lines parseProcCpuInfo looks at
MaxCpuInfoLines == 10

\* parseProcCpuInfo leaving its loop at the first line it takes a name from
RECURSIVE ScanCpuInfo_firstMatch(_, _, _)
ScanCpuInfo_firstMatch(lines, k, cpuName) ==
  IF k > Len(lines) THEN cpuName
  ELSE IF k > MaxCpuInfoLines THEN cpuName
  ELSE LET line == lines[k]
           pos == Find(line, ":")
           rest == SubstrFrom(line, pos + 1)
           pos2 == FindFirstNotOf(rest, " ")
       IN IF Prefix(line, Len(modelName)) # modelName
          THEN ScanCpuInfo_firstMatch(lines, k + 1, cpuName)
          ELSE IF pos = 0
          THEN ScanCpuInfo_firstMatch(lines, k + 1, cpuName)
          ELSE IF pos2 = 0 THEN rest
          ELSE SubstrFrom(rest, pos2)

\* The body of parseProcCpuInfo's while loop for line number k (from 1),
\* then the rest of the loop
RECURSIVE ScanCpuInfo(_, _, _)
ScanCpuInfo(lines, k, cpuName) ==
  IF k > Len(lines) THEN cpuName
  ELSE IF k > MaxCpuInfoLines THEN cpuName
  ELSE LET line == lines[k]
           pos == Find(line, ":")
           rest == SubstrFrom(line, pos + 1)
           pos2 == FindFirstNotOf(rest, " ")
           name == IF Prefix(line, Len(modelName)) # modelName THEN cpuName
                   ELSE IF pos = 0 THEN cpuName
                   ELSE IF pos2 = 0 THEN rest
                   ELSE SubstrFrom(rest, pos2)
       IN ScanCpuInfo(lines, k + 1, name)

parseProcCpuInfo ==
  IF fs[ProcCpuInfo].open
  THEN ScanCpuInfo(split(fs[ProcCpuInfo].data, "\n"), 1, <<>>)
  ELSE <<>>

\* parseThreadList counting a range without its last id
RECURSIVE CountThreadList_exclusive(_, _)
CountThreadList_exclusive(tokens, threads) ==
  IF tokens = <<>> THEN Ok(threads)
  ELSE LET str == Head(tokens) IN
       IF Find(str, "-") = 0
       THEN CountThreadList_exclusive(Tail(tokens), threads + 1)
       ELSE LET values == split(str, "-")
                v0 == At(values, 0)
                t0 == IF v0.exc = "none" THEN stoul(v0.val, 10) ELSE v0
                v1 == IF t0.exc = "none" THEN At(values, 1) ELSE t0
                t1 == IF v1.exc = "none" THEN stoul(v1.val, 10) ELSE v1
            IN IF t1.exc # "none" THEN t1
               ELSE CountThreadList_exclusive(Tail(tokens),
                                              threads + (t1.val - t0.val))

\* The for loop of parseThreadList over the tokens still to visit
RECURSIVE CountThreadList(_, _)
CountThreadList(tokens, threads) ==
  IF tokens = <<>> THEN Ok(threads)
  ELSE LET str == Head(tokens) IN
       IF Find(str, "-") = 0
       THEN CountThreadList(Tail(tokens), threads + 1)
       ELSE LET values == split(str, "-")
                v0 == At(values, 0)
                t0 == IF v0.exc = "none" THEN stoul(v0.val, 10) ELSE v0
                v1 == IF t0.exc = "none" THEN At(values, 1) ELSE t0
                t1 == IF v1.exc = "none" THEN stoul(v1.val, 10) ELSE v1
            IN IF t1.exc # "none" THEN t1
               ELSE CountThreadList(Tail(tokens),
                                    threads + (t1.val - t0.val + 1))

parseThreadList(filename) ==
  CountThreadList(split(getString(filename), ","), 0)

\* x & y on non-negative integers
RECURSIVE BitAnd(_, _)
BitAnd(x, y) ==
  IF x = 0 \/ y = 0 THEN 0
  ELSE (x % 2) * (y % 2) + 2 * BitAnd(x \div 2, y \div 2)

\* for (; bitmap > 0; count++) bitmap &= bitmap - 1;
RECURSIVE ClearBits(_, _)
ClearBits(bitmap, count) ==
  IF bitmap > 0 THEN ClearBits(BitAnd(bitmap, bitmap - 1), count + 1)
  ELSE count

\* The inner loop of parseThreadMap over the characters of one token
RECURSIVE CountHexChars(_, _)
CountHexChars(str, threads) ==
  IF str = <<>> THEN Ok(threads)
  ELSE LET bitmap == stoul(<<Head(str)>>, 16) IN
       IF bitmap.exc # "none" THEN bitmap
       ELSE CountHexChars(Tail(str), ClearBits(bitmap.val, threads))

\* The outer loop of parseThreadMap over the tokens
RECURSIVE CountThreadMap(_, _)
CountThreadMap(tokens, threads) ==
  IF tokens = <<>> THEN Ok(threads)
  ELSE LET r == CountHexChars(Head(tokens), threads) IN
       IF r.exc # "none" THEN r ELSE CountThreadMap(Tail(tokens), r.val)

parseThreadMap(filename) ==
  CountThreadMap(split(getString(filename), ","), 0)

\* getThreads that never reads the thread map
getThreads_noFallback(threadList, threadMap) ==
  parseThreadList(threadList)

\* size_t getThreads(threadList, threadMap)
getThreads(threadList, threadMap) ==
  LET threads == parseThreadList(threadList) IN
  IF threads.exc # "none" THEN threads
  ELSE IF threads.val # 0 THEN threads
  ELSE parseThreadMap(threadMap)

---------------------------------------------------------------------------
(* The has* predicates (CpuInfo's const member functions)                  *)

hasCpuName == cpuName_ # <<>>

hasCpuCores == UGe(cpuCores_, 1) /\ ULe(cpuCores_, 2^20)

hasCpuThreads == UGe(cpuThreads_, 1) /\ ULe(cpuThreads_, 2^20)

hasL1Cache == UGe(l1CacheSize_, 2^12) /\ ULe(l1CacheSize_, 2^30)

hasL2Cache == UGe(l2CacheSize_, 2^12) /\ ULe(l2CacheSize_, 2^30)

\* hasL3Cache with the lower bound of hasL2Cache
hasL3Cache_boundOfL2 == UGe(l3CacheSize_, 2^12) /\ ULe(l3CacheSize_, 2^30)

hasL3Cache == UGe(l3CacheSize_, 2^15) /\ ULe(l3CacheSize_, 2^30)

hasL2Sharing == UGe(l2Sharing_, 1) /\ ULe(l2Sharing_, 2^15)

hasL3Sharing == UGe(l3Sharing_, 1) /\ ULe(l3Sharing_, 2^20)

hasThreadsPerCore == UGe(threadsPerCore_, 1) /\ ULe(threadsPerCore_, 2^10)

hasPrivateL2Cache ==
  /\ hasL2Sharing
  /\ hasThreadsPerCore
  /\ ULe(l2Sharing_, threadsPerCore_)

\* hasHyperThreading without its test l2Sharing_ >= 2
hasHyperThreading_noLowerBound ==
  /\ hasL2Sharing
  /\ hasThreadsPerCore
  /\ ULe(l2Sharing_, threadsPerCore_)

hasHyperThreading ==
  /\ hasL2Sharing
  /\ hasThreadsPerCore
  /\ UGe(l2Sharing_, 2)
  /\ ULe(l2Sharing_, threadsPerCore_)

---------------------------------------------------------------------------
(* The files of the sysfs probe                                            *)

CpusOnline == "/sys/devices/system/cpu/online"

ThreadSiblingsList ==
  "/sys/devices/system/cpu/cpu0/topology/thread_siblings_list"

ThreadSiblings == "/sys/devices/system/cpu/cpu0/topology/thread_siblings"

\* string path = "/sys/devices/system/cpu/cpu0/cache/index" + to_string(i)
IndexPath(k) == "/sys/devices/system/cpu/cpu0/cache/index" \o ToString(k)

CacheLevel(k) == IndexPath(k) \o "/level"
CacheType(k) == IndexPath(k) \o "/type"
CacheSize(k) == IndexPath(k) \o "/size"
SharedCpuList(k) == IndexPath(k) \o "/shared_cpu_list"
SharedCpuMap(k) == IndexPath(k) \o "/shared_cpu_map"

\* The last cache index the probe visits: for (int i = 0; i <= 3; i++)
LastIndex == 3

DataStr == <<"D", "a", "t", "a">>

UnifiedStr == <<"U", "n", "i", "f", "i", "e", "d">>

IsDataOrUnified(t) == t = DataStr \/ t = UnifiedStr

---------------------------------------------------------------------------
(* The constructor and the sysfs CpuInfo::init()                           *)

\* A handler that catches std::invalid_argument only
Catch_invalidArgumentOnly(e) ==
  IF e.exc = "invalid_argument"
  THEN error_' = What(e.exc) /\ pc' = "constructed"
  ELSE error_' = error_ /\ pc' = "terminate"

\* catch (exception& e) { error_ = e.what(); }  An exception of another
\* class would leave the constructor.
Catch(e) ==
  IF e.exc \in StdExceptions
  THEN error_' = What(e.exc) /\ pc' = "constructed"
  ELSE error_' = error_ /\ pc' = "terminate"

\* cpuName_ = parseProcCpuInfo();
InitCpuName ==
  /\ pc = "cpuName"
  /\ cpuName_' = parseProcCpuInfo
  /\ pc' = "cpuThreads"
  /\ UNCHANGED <<fs, win, cpuCores_, cpuThreads_, l1CacheSize_,
                 l2CacheSize_, l3CacheSize_, l2Sharing_, l3Sharing_,
                 threadsPerCore_, error_, i, level, type, ret>>

\* cpuThreads_ = parseThreadList(cpusOnline);
InitCpuThreads ==
  /\ pc = "cpuThreads"
  /\ LET r == parseThreadList(CpusOnline) IN
     IF r.exc = "none"
     THEN cpuThreads_' = r.val /\ pc' = "threadsPerCore" /\ error_' = error_
     ELSE cpuThreads_' = cpuThreads_ /\ Catch(r)
  /\ UNCHANGED <<fs, win, cpuName_, cpuCores_, l1CacheSize_, l2CacheSize_,
                 l3CacheSize_, l2Sharing_, l3Sharing_, threadsPerCore_,
                 i, level, type, ret>>

\* threadsPerCore_ = getThreads(threadSiblingsList, threadSiblings);
InitThreadsPerCore ==
  /\ pc = "threadsPerCore"
  /\ LET r == getThreads(ThreadSiblingsList, ThreadSiblings) IN
     IF r.exc = "none"
     THEN threadsPerCore_' = r.val /\ pc' = "cpuCores" /\ error_' = error_
     ELSE threadsPerCore_' = threadsPerCore_ /\ Catch(r)
  /\ UNCHANGED <<fs, win, cpuName_, cpuCores_, cpuThreads_, l1CacheSize_,
                 l2CacheSize_, l3CacheSize_, l2Sharing_, l3Sharing_,
                 i, level, type, ret>>

\* if (hasCpuThreads() && hasThreadsPerCore())
\*   cpuCores_ = cpuThreads_ / threadsPerCore_;
\* and the loop's int i = 0
InitCpuCores ==
  /\ pc = "cpuCores"
  /\ cpuCores_' = IF hasCpuThreads /\ hasThreadsPerCore
                  THEN cpuThreads_ \div threadsPerCore_
                  ELSE cpuCores_
  /\ i' = 0
  /\ pc' = "loop"
  /\ UNCHANGED <<fs, win, cpuName_, cpuThreads_, l1CacheSize_,
                 l2CacheSize_, l3CacheSize_, l2Sharing_, l3Sharing_,
                 threadsPerCore_, error_, level, type, ret>>

\* i <= 3, then size_t level = getValue(cacheLevel);
\* string type = getString(cacheType);  After the last index init() and
\* the constructor return.
InitLoop ==
  /\ pc = "loop"
  /\ IF i <= LastIndex
     THEN LET r == getValue(CacheLevel(i)) IN
          IF r.exc = "none"
          THEN /\ level' = r.val
               /\ type' = getString(CacheType(i))
               /\ pc' = "l1CacheSize"
               /\ error_' = error_
          ELSE UNCHANGED <<level, type>> /\ Catch(r)
     ELSE /\ pc' = "constructed"
          /\ UNCHANGED <<level, type, error_>>
  /\ UNCHANGED <<fs, win, cpuName_, cpuCores_, cpuThreads_, l1CacheSize_,
                 l2CacheSize_, l3CacheSize_, l2Sharing_, l3Sharing_,
                 threadsPerCore_, i, ret>>

\* if (level == 1 && ...) l1CacheSize_ = getValue(cacheSize);
InitL1CacheSize ==
  /\ pc = "l1CacheSize"
  /\ IF level = 1 /\ IsDataOrUnified(type)
     THEN LET r == getValue(CacheSize(i)) IN
          IF r.exc = "none"
          THEN l1CacheSize_' = r.val /\ pc' = "l2CacheSize"
               /\ error_' = error_
          ELSE l1CacheSize_' = l1CacheSize_ /\ Catch(r)
     ELSE pc' = "l2CacheSize" /\ UNCHANGED <<l1CacheSize_, error_>>
  /\ UNCHANGED <<fs, win, cpuName_, cpuCores_, cpuThreads_, l2CacheSize_,
                 l3CacheSize_, l2Sharing_, l3Sharing_, threadsPerCore_,
                 i, level, type, ret>>

\* if (level == 2 && ...) l2CacheSize_ = getValue(cacheSize);
InitL2CacheSize ==
  /\ pc = "l2CacheSize"
  /\ IF level = 2 /\ IsDataOrUnified(type)
     THEN LET r == getValue(CacheSize(i)) IN
          IF r.exc = "none"
          THEN l2CacheSize_' = r.val /\ pc' = "l2Sharing"
               /\ error_' = error_
          ELSE l2CacheSize_' = l2CacheSize_ /\ Catch(r)
     ELSE pc' = "l3CacheSize" /\ UNCHANGED <<l2CacheSize_, error_>>
  /\ UNCHANGED <<fs, win, cpuName_, cpuCores_, cpuThreads_, l1CacheSize_,
                 l3CacheSize_, l2Sharing_, l3Sharing_, threadsPerCore_,
                 i, level, type, ret>>

\* l2Sharing_ = getThreads(sharedCpuList, sharedCpuMap);
InitL2Sharing ==
  /\ pc = "l2Sharing"
  /\ LET r == getThreads(SharedCpuList(i), SharedCpuMap(i)) IN
     IF r.exc = "none"
     THEN l2Sharing_' = r.val /\ pc' = "l3CacheSize" /\ error_' = error_
     ELSE l2Sharing_' = l2Sharing_ /\ Catch(r)
  /\ UNCHANGED <<fs, win, cpuName_, cpuCores_, cpuThreads_, l1CacheSize_,
                 l2CacheSize_, l3CacheSize_, l3Sharing_, threadsPerCore_,
                 i, level, type, ret>>

\* if (level == 3 && ...) l3CacheSize_ = getValue(cacheSize);  Otherwise
\* the loop body ends: i++
InitL3CacheSize ==
  /\ pc = "l3CacheSize"
  /\ IF level = 3 /\ IsDataOrUnified(type)
     THEN LET r == getValue(CacheSize(i)) IN
          IF r.exc = "none"
          THEN l3CacheSize_' = r.val /\ pc' = "l3Sharing"
               /\ error_' = error_ /\ i' = i
          ELSE l3CacheSize_' = l3CacheSize_ /\ i' = i /\ Catch(r)
     ELSE pc' = "loop" /\ i' = i + 1 /\ UNCHANGED <<l3CacheSize_, error_>>
  /\ UNCHANGED <<fs, win, cpuName_, cpuCores_, cpuThreads_, l1CacheSize_,
                 l2CacheSize_, l2Sharing_, l3Sharing_, threadsPerCore_,
                 level, type, ret>>

\* l3Sharing_ = getThreads(sharedCpuList, sharedCpuMap); then i++
InitL3Sharing ==
  /\ pc = "l3Sharing"
  /\ LET r == getThreads(SharedCpuList(i), SharedCpuMap(i)) IN
     IF r.exc = "none"
     THEN l3Sharing_' = r.val /\ pc' = "loop" /\ i' = i + 1
          /\ error_' = error_
     ELSE l3Sharing_' = l3Sharing_ /\ i' = i /\ Catch(r)
  /\ UNCHANGED <<fs, win, cpuName_, cpuCores_, cpuThreads_, l1CacheSize_,
                 l2CacheSize_, l3CacheSize_, l2Sharing_, threadsPerCore_,
                 level, type, ret>>

---------------------------------------------------------------------------
(* The accessors, called on the constructed singleton                      *)

Accessors == {"cpuName", "cpuCores", "cpuThreads", "l1CacheSize",
              "l2CacheSize", "l3CacheSize", "l2Sharing", "l3Sharing",
              "threadsPerCore", "getError"}

Predicates == {"hasCpuName", "hasCpuCores", "hasCpuThreads", "hasL1Cache",
               "hasL2Cache", "hasL3Cache", "hasL2Sharing", "hasL3Sharing",
               "hasThreadsPerCore", "hasPrivateL2Cache",
               "hasHyperThreading"}

\* What the const member function named f returns
Return(f) ==
  CASE f = "cpuName" -> cpuName_
    [] f = "cpuCores" -> cpuCores_
    [] f = "cpuThreads" -> cpuThreads_
    [] f = "l1CacheSize" -> l1CacheSize_
    [] f = "l2CacheSize" -> l2CacheSize_
    [] f = "l3CacheSize" -> l3CacheSize_
    [] f = "l2Sharing" -> l2Sharing_
    [] f = "l3Sharing" -> l3Sharing_
    [] f = "threadsPerCore" -> threadsPerCore_
    [] f = "getError" -> error_
    [] f = "hasCpuName" -> hasCpuName
    [] f = "hasCpuCores" -> hasCpuCores
    [] f = "hasCpuThreads" -> hasCpuThreads
    [] f = "hasL1Cache" -> hasL1Cache
    [] f = "hasL2Cache" -> hasL2Cache
    [] f = "hasL3Cache" -> hasL3Cache
    [] f = "hasL2Sharing" -> hasL2Sharing
    [] f = "hasL3Sharing" -> hasL3Sharing
    [] f = "hasThreadsPerCore" -> hasThreadsPerCore
    [] f = "hasPrivateL2Cache" -> hasPrivateL2Cache
    [] f = "hasHyperThreading" -> hasHyperThreading

\* A non-const l2Sharing() that replaces an implausible count by 1
CallMember_clamping(f) ==
  /\ pc = "constructed"
  /\ l2Sharing_' = IF f = "l2Sharing" /\ ~hasL2Sharing THEN 1 ELSE l2Sharing_
  /\ ret' = [call |-> f, val |-> IF f = "l2Sharing" THEN l2Sharing_'
                                 ELSE Return(f)]
  /\ UNCHANGED <<fs, win, cpuName_, cpuCores_, cpuThreads_, l1CacheSize_,
                 l2CacheSize_, l3CacheSize_, l3Sharing_,
                 threadsPerCore_, error_, pc, i, level, type>>

\* A call of a const member function of the singleton cpuInfo: it returns
\* a value and writes no member.
CallMember(f) ==
  /\ pc = "constructed"
  /\ ret' = [call |-> f, val |-> Return(f)]
  /\ UNCHANGED <<fs, win, cpuName_, cpuCores_, cpuThreads_, l1CacheSize_,
                 l2CacheSize_, l3CacheSize_, l2Sharing_, l3Sharing_,
                 threadsPerCore_, error_, pc, i, level, type>>

Call == \E f \in Accessors \cup Predicates : CallMember(f)

NoCall == [call |-> "none", val |-> 0]

\* CpuInfo::CpuInfo()'s member initializers
Constructed0 ==
  /\ cpuName_ = <<>>
  /\ cpuCores_ = 0
  /\ cpuThreads_ = 0
  /\ l1CacheSize_ = 0
  /\ l2CacheSize_ = 0
  /\ l3CacheSize_ = 0
  /\ l2Sharing_ = 0
  /\ l3Sharing_ = 0
  /\ threadsPerCore_ = 0
  /\ error_ = ""

---------------------------------------------------------------------------
(* The hosts the sysfs probe is run on                                     *)

NoFile == [open |-> FALSE, data |-> <<>>]

File(d) == [open |-> TRUE, data |-> d]

Paths ==
  {ProcCpuInfo, CpusOnline, ThreadSiblingsList, ThreadSiblings}
  \cup UNION {{CacheLevel(k), CacheType(k), CacheSize(k), SharedCpuList(k),
               SharedCpuMap(k)} : k \in 0..LastIndex}

NoFiles == [p \in Paths |-> NoFile]

\* Lines of /proc/cpuinfo
LineProcessor == <<"p", "r", "o", "c", "e", "s", "s", "o", "r", " ", ":", " ", "0">>

LineNameA == <<"m", "o", "d", "e", "l", " ", "n", "a", "m", "e", " ", ":", " ", "A">>

LineNameB == <<"m", "o", "d", "e", "l", " ", "n", "a", "m", "e", " ", ":", " ", " ", "B", ":", "b">>

NewLine == <<"\n">>

\* /proc/cpuinfo with the line `line` as line number n, after n - 1 other
\* lines
RECURSIVE CpuInfoText(_, _)
CpuInfoText(n, line) ==
  IF n <= 1 THEN line \o NewLine
  ELSE LineProcessor \o NewLine \o CpuInfoText(n - 1, line)

\* A cache index directory: its level, type, size, shared_cpu_list and
\* shared_cpu_map files
Cache(lv, ty, sz, list, map) ==
  [level |-> lv, type |-> ty, size |-> sz, list |-> list, map |-> map]

NoCache == Cache(NoFile, NoFile, NoFile, NoFile, NoFile)

Txt1 == File(<<"1", "\n">>)
Txt2 == File(<<"2", "\n">>)
Txt3 == File(<<"3", "\n">>)
TxtData == File(<<"D", "a", "t", "a", "\n">>)
TxtInstruction == File(<<"I", "n", "s", "t", "r", "u", "c", "t", "i", "o", "n", "\n">>)
TxtUnified == File(<<"U", "n", "i", "f", "i", "e", "d", "\n">>)
Txt32K == File(<<"3", "2", "K", "\n">>)
Txt256K == File(<<"2", "5", "6", "K", "\n">>)
Txt8M == File(<<"8", "M", "\n">>)
TxtBadNumber == File(<<"K", "\n">>)
TxtList0 == File(<<"0", "\n">>)
TxtList0to1 == File(<<"0", "-", "1", "\n">>)
TxtList0and4 == File(<<"0", ",", "4", "\n">>)
TxtList0to3 == File(<<"0", "-", "3", "\n">>)
TxtList0to7 == File(<<"0", "-", "7", "\n">>)
TxtList0to3and8to11 == File(<<"0", "-", "3", ",", "8", "-", "1", "1", "\n">>)
TxtList0to1023 == File(<<"0", "-", "1", "0", "2", "3", "\n">>)
TxtList0to1024 == File(<<"0", "-", "1", "0", "2", "4", "\n">>)
TxtListNoUpper == File(<<"0", "-", "\n">>)
TxtListNoLower == File(<<"-", "3", "\n">>)
TxtListBadUpper == File(<<"0", "-", "x", "\n">>)
TxtListReversed == File(<<"3", "-", "0", "\n">>)
TxtMap3 == File(<<"0", "0", "0", "0", "0", "0", "0", "0", ",", "0", "0", "0", "0", "0", "0", "0", "3", "\n">>)
TxtMapFF == File(<<"f", "f", "\n">>)
TxtMapBad == File(<<"0", "z", "\n">>)

\* The cache index directories of a host whose thread_siblings_list and
\* thread_siblings files are sl and sm
Caches(sl, sm) ==
  { NoCache,
    Cache(Txt2, TxtUnified, Txt256K, sl, sm),
    Cache(Txt2, TxtData, Txt256K, TxtList0to3, NoFile),
    Cache(Txt3, TxtUnified, Txt8M, TxtList0to7, NoFile),
    Cache(Txt3, TxtUnified, Txt8M, NoFile, TxtMapFF),
    Cache(TxtBadNumber, TxtUnified, Txt32K, sl, sm),
    Cache(Txt1, TxtData, TxtBadNumber, sl, sm),
    Cache(Txt2, TxtUnified, TxtBadNumber, sl, sm),
    Cache(Txt2, TxtUnified, Txt256K, TxtListNoUpper, sm),
    Cache(Txt3, TxtUnified, TxtBadNumber, TxtList0to7, NoFile),
    Cache(Txt3, TxtData, Txt8M, NoFile, TxtMapBad) }

\* The usual four directories: L1 data, L1 instruction, L2, L3
UsualLayout(sl, sm) ==
  << Cache(Txt1, TxtData, Txt32K, sl, sm),
     Cache(Txt1, TxtInstruction, Txt32K, sl, sm),
     Cache(Txt2, TxtUnified, Txt256K, sl, sm),
     Cache(Txt3, TxtUnified, Txt8M, TxtList0to7, NoFile) >>

\* The usual layout, the usual layout with one directory replaced, and no
\* directory at all
Layouts(sl, sm) ==
  { [UsualLayout(sl, sm) EXCEPT ![k] = c] :
      k \in 1..(LastIndex + 1), c \in Caches(sl, sm) }
  \cup { [k \in 1..(LastIndex + 1) |-> NoCache] }

IndexFiles(k, c) ==
  (CacheLevel(k) :> c.level) @@ (CacheType(k) :> c.type)
  @@ (CacheSize(k) :> c.size) @@ (SharedCpuList(k) :> c.list)
  @@ (SharedCpuMap(k) :> c.map)

Host(info, online, sl, sm, layout) ==
  (ProcCpuInfo :> info) @@ (CpusOnline :> online)
  @@ (ThreadSiblingsList :> sl) @@ (ThreadSiblings :> sm)
  @@ IndexFiles(0, layout[1]) @@ IndexFiles(1, layout[2])
  @@ IndexFiles(2, layout[3]) @@ IndexFiles(3, layout[4])

\* /proc/cpuinfo and cpu/online
TopFiles ==
  { <<NoFile, NoFile>>,
    <<NoFile, TxtList0to7>>,
    <<File(CpuInfoText(5, LineNameA)), TxtList0to7>>,
    <<File(CpuInfoText(5, LineNameA)), TxtList0to3and8to11>>,
    <<File(CpuInfoText(5, LineNameA)), TxtListNoUpper>>,
    <<File(CpuInfoText(5, LineNameA)), TxtListReversed>> }

\* thread_siblings_list and thread_siblings
SiblingFiles ==
  { <<NoFile, NoFile>>,
    <<NoFile, TxtMap3>>,
    <<NoFile, TxtMapBad>>,
    <<TxtList0, NoFile>>,
    <<TxtList0to1, NoFile>>,
    <<TxtList0and4, TxtMap3>>,
    <<TxtList0to1023, NoFile>>,
    <<TxtList0to1024, NoFile>>,
    <<TxtListNoLower, TxtMap3>> }

SysfsHosts ==
  UNION { { Host(top[1], top[2], sib[1], sib[2], layout) :
              top \in TopFiles, layout \in Layouts(sib[1], sib[2]) } :
          sib \in SiblingFiles }

\* No Windows API on this platform
NoWin ==
  [glpi |-> FALSE, glpiOk |-> FALSE, glpiex |-> FALSE, glpiexOk |-> FALSE,
   info |-> <<>>, infoEx |-> <<>>]

SysfsInit ==
  /\ fs \in SysfsHosts
  /\ win = NoWin
  /\ Constructed0
  /\ pc = "cpuName"
  /\ i = 0
  /\ level = 0
  /\ type = <<>>
  /\ ret = NoCall

SysfsNext ==
  \/ InitCpuName
  \/ InitCpuThreads
  \/ InitThreadsPerCore
  \/ InitCpuCores
  \/ InitLoop
  \/ InitL1CacheSize
  \/ InitL2CacheSize
  \/ InitL2Sharing
  \/ InitL3CacheSize
  \/ InitL3Sharing
  \/ Call

SpecSysfs == SysfsInit /\ [][SysfsNext]_vars

---------------------------------------------------------------------------
(* What a file's text denotes (the kernel's cpulist format), stated apart  *)
(* from the parsers above                                                  *)

\* The first whitespace-delimited word of a file, <<>> for a missing file
WordOf(f) == IF f.open THEN TakeWord(SkipSpace(f.data)) ELSE <<>>

IsNumber(t) == t # <<>> /\ \A k \in 1..Len(t) : t[k] \in DigitChars

\* id0-id1 with id0 <= id1
IsRange(t) ==
  \E k \in 2..(Len(t) - 1) :
    /\ t[k] = "-"
    /\ IsNumber(SubSeq(t, 1, k - 1))
    /\ IsNumber(SubSeq(t, k + 1, Len(t)))
    /\ NumberOf(SubSeq(t, 1, k - 1), 10) <= NumberOf(SubSeq(t, k + 1, Len(t)), 10)

\* The ids a token of a cpulist denotes
TokenIds(t) ==
  IF IsNumber(t) THEN {NumberOf(t, 10)}
  ELSE LET k == Find(t, "-") IN
       NumberOf(SubSeq(t, 1, k - 1), 10)..NumberOf(SubSeq(t, k + 1, Len(t)), 10)

\* A cpulist as the kernel prints it: ids and ranges separated by commas,
\* ascending, no id twice
IsCpuList(w) ==
  LET tokens == split(w, ",") IN
  /\ w # <<>>
  /\ w[Len(w)] # ","
  /\ \A k \in 1..Len(tokens) : IsNumber(tokens[k]) \/ IsRange(tokens[k])
  /\ \A j, k \in 1..Len(tokens) :
       j < k => \A a \in TokenIds(tokens[j]), b \in TokenIds(tokens[k]) : a < b

ListIds(w) ==
  LET tokens == split(w, ",") IN
  UNION {TokenIds(tokens[k]) : k \in 1..Len(tokens)}

\* File f is a cpulist that denotes n thread ids
Denotes(f, n) ==
  f.open /\ IsCpuList(WordOf(f)) /\ Cardinality(ListIds(WordOf(f))) = n

\* Cache index k of cpu0 is a data or unified cache of level n
IsCacheOfLevel(k, n) ==
  /\ IsNumber(WordOf(fs[CacheLevel(k)]))
  /\ NumberOf(WordOf(fs[CacheLevel(k)]), 10) = n
  /\ WordOf(fs[CacheType(k)]) \in {DataStr, UnifiedStr}

AllFilesMissing == \A p \in Paths : ~fs[p].open

---------------------------------------------------------------------------
(* Claims about the constructor and the sysfs probe                        *)

ProbePcs == {"cpuName", "cpuThreads", "threadsPerCore", "cpuCores", "loop",
             "l1CacheSize", "l2CacheSize", "l2Sharing", "l3CacheSize",
             "l3Sharing"}

BeforeLoopPcs == {"cpuName", "cpuThreads", "threadsPerCore", "cpuCores"}

\* The statement at pc throws
Raises ==
  CASE pc = "cpuThreads" -> parseThreadList(CpusOnline).exc # "none"
    [] pc = "threadsPerCore" ->
         getThreads(ThreadSiblingsList, ThreadSiblings).exc # "none"
    [] pc = "loop" -> i <= LastIndex /\ getValue(CacheLevel(i)).exc # "none"
    [] pc = "l1CacheSize" ->
         /\ level = 1 /\ IsDataOrUnified(type)
         /\ getValue(CacheSize(i)).exc # "none"
    [] pc = "l2CacheSize" ->
         /\ level = 2 /\ IsDataOrUnified(type)
         /\ getValue(CacheSize(i)).exc # "none"
    [] pc = "l3CacheSize" ->
         /\ level = 3 /\ IsDataOrUnified(type)
         /\ getValue(CacheSize(i)).exc # "none"
    [] pc \in {"l2Sharing", "l3Sharing"} ->
         getThreads(SharedCpuList(i), SharedCpuMap(i)).exc # "none"
    [] OTHER -> FALSE

\* The probe has gone past statement `after` of the loop body for index k
\* (after = the pcs that follow the statement in the body), or may have
Passed(k, after) ==
  /\ pc \notin BeforeLoopPcs
  /\ k < i \/ (k = i /\ pc \in after \cup {"constructed"})

\* The probe found a data or unified cache of level n at index k
FoundLevel(k, n) ==
  LET r == getValue(CacheLevel(k)) IN
  r.exc = "none" /\ r.val = n /\ IsDataOrUnified(getString(CacheType(k)))

\* A field the probe has not assigned yet still has its initial value
UnassignedAreZero ==
  /\ pc = "cpuName" => cpuName_ = <<>>
  /\ pc \in {"cpuName", "cpuThreads"} => cpuThreads_ = 0
  /\ pc \in {"cpuName", "cpuThreads", "threadsPerCore"} => threadsPerCore_ = 0
  /\ pc \in BeforeLoopPcs => cpuCores_ = 0
  /\ l1CacheSize_ # 0 =>
       \E k \in 0..LastIndex :
         FoundLevel(k, 1)
         /\ Passed(k, {"l2CacheSize", "l2Sharing", "l3CacheSize", "l3Sharing"})
  /\ l2CacheSize_ # 0 =>
       \E k \in 0..LastIndex :
         FoundLevel(k, 2) /\ Passed(k, {"l2Sharing", "l3CacheSize", "l3Sharing"})
  /\ l2Sharing_ # 0 =>
       \E k \in 0..LastIndex :
         FoundLevel(k, 2) /\ Passed(k, {"l3CacheSize", "l3Sharing"})
  /\ l3CacheSize_ # 0 =>
       \E k \in 0..LastIndex : FoundLevel(k, 3) /\ Passed(k, {"l3Sharing"})
  /\ l3Sharing_ # 0 =>
       \E k \in 0..LastIndex : FoundLevel(k, 3) /\ Passed(k, {})

\* A step of the probe whose statement throws ends the construction with
\* the error text set and no other field changed; one whose statement does
\* not throw leaves the error text empty
ProbeStepHandlesFailure ==
  pc \in ProbePcs =>
    IF Raises
    THEN /\ pc' = "constructed"
         /\ error_' # ""
         /\ UNCHANGED <<cpuName_, cpuCores_, cpuThreads_, l1CacheSize_,
                        l2CacheSize_, l3CacheSize_, l2Sharing_, l3Sharing_,
                        threadsPerCore_>>
    ELSE error_ = "" /\ error_' = ""

\* C3: the construction never lets an exception escape; if a step of the
\* probe raises an exception the probe stops there with getError()
\* non-empty, the fields assigned so far keep their values and the fields
\* not assigned yet are 0 (cpuName empty); if no step raises, getError()
\* is empty.
C3_FailureIsCaptured ==
  /\ [](pc # "terminate")
  /\ [](pc \in ProbePcs => error_ = "")
  /\ []UnassignedAreZero
  /\ [][ProbeStepHandlesFailure]_vars

\* A probe that stopped at the L2 sharing count of a cache index: the L1
\* and L2 sizes read before are kept, nothing of L2 sharing and L3 is set.
C3_Witness ==
  /\ pc = "constructed"
  /\ error_ # ""
  /\ cpuThreads_ = 8
  /\ l1CacheSize_ = 32768
  /\ l2CacheSize_ = 262144
  /\ l2Sharing_ = 0
  /\ l3CacheSize_ = 0

\* C4: with no source file that can be opened, the constructed object has
\* every numeric field 0, an empty cpuName, every has* predicate false and
\* an empty error text, and every accessor returns just that.
C4_NoSourcesAllZero ==
  pc = "constructed" /\ AllFilesMissing =>
    /\ error_ = ""
    /\ cpuName_ = <<>>
    /\ \A f \in Accessors \ {"cpuName", "getError"} : Return(f) = 0
    /\ \A f \in Predicates : Return(f) = FALSE
    /\ ret.call \in Accessors \ {"cpuName", "getError"} => ret.val = 0
    /\ ret.call \in Predicates => ret.val = FALSE
    /\ ret.call = "cpuName" => ret.val = <<>>
    /\ ret.call = "getError" => ret.val = ""

C4_Witness ==
  /\ pc = "constructed"
  /\ AllFilesMissing
  /\ ret.call = "hasL2Cache"
  /\ ret.val = FALSE

\* C7: once the constructor has returned, no call changes a field or the
\* error text, the object stays constructed, and a call of the member
\* called last returns the value it returned then.
C7_ReadOnlyAfterConstruction ==
  [][pc = "constructed" =>
       /\ pc' = "constructed"
       /\ UNCHANGED fields
       /\ UNCHANGED fs
       /\ ret'.val = Return(ret'.call)
       /\ ret'.call = ret.call => ret'.val = ret.val]_vars

C7_Witness ==
  /\ pc = "constructed"
  /\ ret.call = "l2Sharing"
  /\ ret.val = 2
  /\ error_ = ""

\* Every data or unified cache of level 2 of cpu0 has a shared_cpu_list
\* identical to cpu0's thread_siblings_list, and there is such a cache
L2SharedLikeSiblings ==
  /\ \E k \in 0..LastIndex : IsCacheOfLevel(k, 2)
  /\ \A k \in 0..LastIndex :
       IsCacheOfLevel(k, 2) => fs[SharedCpuList(k)] = fs[ThreadSiblingsList]

\* C8: after a probe that raised no exception, on a host whose level-2
\* data/unified cache has a shared_cpu_list identical to cpu0's
\* thread_siblings_list denoting n threads, 1 <= n <= 2^10: l2Sharing =
\* threadsPerCore = n, hasPrivateL2Cache() and hasHyperThreading() iff
\* n >= 2; with n = 2 and an online list of 8 threads, cpuThreads = 8,
\* threadsPerCore = 2, cpuCores = 4, l2Sharing = 2 and both predicates hold.
C8_PrivateL2Host ==
  pc = "constructed" /\ error_ = "" /\ L2SharedLikeSiblings
  /\ fs[ThreadSiblingsList].open /\ IsCpuList(WordOf(fs[ThreadSiblingsList])) =>
    LET n == Cardinality(ListIds(WordOf(fs[ThreadSiblingsList]))) IN
    /\ n \in 1..(2^10) =>
         /\ l2Sharing_ = n
         /\ threadsPerCore_ = n
         /\ hasPrivateL2Cache
         /\ hasHyperThreading <=> n >= 2
    /\ n = 2 /\ Denotes(fs[CpusOnline], 8) =>
         /\ cpuThreads_ = 8
         /\ threadsPerCore_ = 2
         /\ cpuCores_ = 4
         /\ l2Sharing_ = 2
         /\ hasHyperThreading
         /\ hasPrivateL2Cache

C8_Witness ==
  /\ pc = "constructed"
  /\ error_ = ""
  /\ L2SharedLikeSiblings
  /\ Denotes(fs[CpusOnline], 8)
  /\ Denotes(fs[ThreadSiblingsList], 2)
  /\ cpuCores_ = 4
  /\ l2Sharing_ = 2
  /\ ret.call = "hasHyperThreading"
  /\ ret.val = TRUE

---------------------------------------------------------------------------
(* The parsers called on their own                                         *)

\* A call of a parser of the anonymous namespace: f names the call, v is
\* what it returns or throws
CallParser(f, v) ==
  /\ pc = "call"
  /\ ret' = [call |-> f, val |-> v]
  /\ pc' = "return"
  /\ UNCHANGED <<fs, win, cpuName_, cpuCores_, cpuThreads_, l1CacheSize_,
                 l2CacheSize_, l3CacheSize_, l2Sharing_, l3Sharing_,
                 threadsPerCore_, error_, i, level, type>>

ParserInit(files) ==
  /\ fs \in files
  /\ win = NoWin
  /\ Constructed0
  /\ pc = "call"
  /\ i = 0
  /\ level = 0
  /\ type = <<>>
  /\ ret = NoCall

\* The decimal digits of n
RECURSIVE Digits(_)
Digits(n) ==
  IF n < 10 THEN <<ToString(n)>>
  ELSE Digits(n \div 10) \o <<ToString(n % 10)>>

---------------------------------------------------------------------------
(* getValue                                                                *)

\* The numbers 0..MaxNumber are written to the file getValue reads
MaxNumber == 40

Suffixes == {<<>>, <<"K">>, <<"M">>, <<"G">>}

ScaleOf(suffix) ==
  CASE suffix = <<>> -> 1
    [] suffix = <<"K">> -> 2^10
    [] suffix = <<"M">> -> 2^20
    [] suffix = <<"G">> -> 2^30

\* Numbers and suffixes whose value is at most 2^31 - 1
Quantities ==
  { q \in ((0..MaxNumber) \cup {256, 1023, 1024, 2047}) \X Suffixes :
      q[1] <= 2147483647 \div ScaleOf(q[2]) }

\* <digits><suffix>, with or without a leading 0 and a final newline
QuantityTexts(q) ==
  { lead \o Digits(q[1]) \o q[2] \o nl :
      lead \in {<<>>, <<"0">>}, nl \in {<<>>, NewLine} }

ValueFiles ==
  {NoFile, File(<<>>), File(NewLine), File(<<"K", "\n">>),
   File(<<"x", "1", "\n">>), File(<<"1", "2", "K", "B", "\n">>), File(<<"7", "k">>)}
  \cup UNION { {File(t) : t \in QuantityTexts(q)} : q \in Quantities }

ValueHosts == { [NoFiles EXCEPT ![CacheSize(0)] = f] : f \in ValueFiles }

CallGetValue == CallParser("getValue", getValue(CacheSize(0)))

ValueInit == ParserInit(ValueHosts)

ValueNext == CallGetValue

SpecValue == ValueInit /\ [][ValueNext]_vars

\* C6: for a file that holds <digits><suffix> with suffix "", K, M or G,
\* getValue returns digits times 1, 1024, 1024^2 or 1024^3; for an empty
\* or a missing file it returns 0.
C6_GetValueScales ==
  ret.call = "getValue" =>
    /\ \A q \in Quantities :
         fs[CacheSize(0)].open /\ fs[CacheSize(0)].data \in QuantityTexts(q)
           => ret.val = Ok(q[1] * ScaleOf(q[2]))
    /\ ~fs[CacheSize(0)].open \/ fs[CacheSize(0)].data = <<>>
         => ret.val = Ok(0)

C6_Witness ==
  /\ ret.call = "getValue"
  /\ fs[CacheSize(0)] = File(<<"1", "G", "\n">>)
  /\ ret.val = Ok(1073741824)

---------------------------------------------------------------------------
(* getThreads                                                              *)

\* Thread ids 0..MaxThreadId, and 10, are listed in the cpulist files
MaxThreadId == 3

ThreadIds == (0..MaxThreadId) \cup {10}

Min(S) == CHOOSE a \in S : \A b \in S : a <= b

\* The last id of the run of consecutive ids of S that starts at a
RECURSIVE RunEnd(_, _)
RunEnd(S, a) == IF a + 1 \in S THEN RunEnd(S, a + 1) ELSE a

\* The cpulist of the non-empty set S: every id on its own ("ids"), every
\* run of consecutive ids as a range id0-id1 ("ranges"), or as the kernel
\* prints it, a run of one id as that id ("kernel")
RECURSIVE ListText(_, _)
ListText(S, style) ==
  LET a == Min(S)
      b == IF style = "ids" THEN a ELSE RunEnd(S, a)
      token == IF style = "ids" \/ (style = "kernel" /\ a = b)
               THEN Digits(a)
               ELSE Digits(a) \o <<"-">> \o Digits(b)
      rest == {c \in S : c > b}
  IN IF rest = {} THEN token ELSE token \o <<",">> \o ListText(rest, style)

IdLists ==
  { File(ListText(S, "ids") \o NewLine) : S \in (SUBSET ThreadIds) \ {{}} }

RangeLists ==
  { File(ListText(S, style) \o NewLine) :
      S \in (SUBSET ThreadIds) \ {{}}, style \in {"ranges", "kernel"} }

\* Lists that count no thread
EmptyLists == {NoFile, File(<<>>), File(NewLine), File(<<"1", "-", "0", "\n">>)}

MapFiles ==
  {NoFile, File(<<>>), File(<<"0", "\n">>), File(<<"3", "\n">>), File(<<"f", "0", "\n">>),
   File(<<"A", "5", "\n">>), File(<<"0", "0", "0", "0", "0", "0", "0", "0", ",", "0", "0", "0", "0", "0", "0", "0", "3", "\n">>), File(<<"f", "f", ",", "f", "f", "f", "f", "f", "f", "f", "f", "\n">>),
   File(<<"7", "z", "\n">>)}

ThreadsHost(list1, map1, list2, map2) ==
  [NoFiles EXCEPT ![ThreadSiblingsList] = list1, ![ThreadSiblings] = map1,
                  ![SharedCpuList(2)] = list2, ![SharedCpuMap(2)] = map2]

ThreadsHosts ==
  { ThreadsHost(list1, TxtMap3, list2, NoFile) :
      list1 \in IdLists, list2 \in RangeLists }
  \cup { ThreadsHost(list1, map1, list2, map1) :
           list1 \in EmptyLists, map1 \in MapFiles,
           list2 \in {NoFile, TxtListNoUpper, TxtList0to3} }

\* getThreads(threadSiblingsList, threadSiblings)
CallGetThreadsOfSiblings ==
  CallParser("getThreads(siblings)",
             getThreads(ThreadSiblingsList, ThreadSiblings))

\* getThreads(sharedCpuList, sharedCpuMap) for cache index 2
CallGetThreadsOfShared ==
  CallParser("getThreads(shared)",
             getThreads(SharedCpuList(2), SharedCpuMap(2)))

ThreadsInit == ParserInit(ThreadsHosts)

ThreadsNext == CallGetThreadsOfSiblings \/ CallGetThreadsOfShared

SpecThreads == ThreadsInit /\ [][ThreadsNext]_vars

\* The tokens of a cpulist are all single ids / all ranges
AllIds(w) ==
  LET tokens == split(w, ",") IN \A k \in 1..Len(tokens) : IsNumber(tokens[k])

AllRanges(w) ==
  LET tokens == split(w, ",") IN \A k \in 1..Len(tokens) : IsRange(tokens[k])

\* The set bits of the hexadecimal digits of w, its commas left out
RECURSIVE HexBits(_)
HexBits(w) ==
  IF w = <<>> THEN 0
  ELSE (IF Head(w) = "," THEN 0
        ELSE Cardinality({b \in 0..3 :
                            (DigitValue(Head(w)) \div (2^b)) % 2 = 1}))
       + HexBits(Tail(w))

IsHexMap(w) == \A k \in 1..Len(w) : w[k] \in HexChars \cup {","}

\* C5: getThreads returns the same count for a list of single ids and a
\* list of ranges (each a cpulist: ascending, no id twice) that denote
\* the same set of thread ids; and when the list is empty or missing, or
\* counts 0 threads, it returns the number of set bits of the hexadecimal
\* digits of the map.
C5_GetThreadsCounts ==
  LET list1 == WordOf(fs[ThreadSiblingsList])
      list2 == WordOf(fs[SharedCpuList(2)])
      map1 == WordOf(fs[ThreadSiblings])
      threads1 == getThreads(ThreadSiblingsList, ThreadSiblings)
      threads2 == getThreads(SharedCpuList(2), SharedCpuMap(2))
  IN /\ /\ IsCpuList(list1) /\ AllIds(list1)
        /\ IsCpuList(list2) /\ AllRanges(list2)
        /\ ListIds(list1) = ListIds(list2)
        => /\ threads1 = threads2
           /\ ret.call = "getThreads(siblings)" => ret.val = threads2
           /\ ret.call = "getThreads(shared)" => ret.val = threads1
     /\ /\ ret.call = "getThreads(siblings)"
        /\ list1 = <<>> \/ parseThreadList(ThreadSiblingsList) = Ok(0)
        /\ IsHexMap(map1)
        => ret.val = Ok(HexBits(map1))

\* "0,1,2,3" and "0-3" both give 4
C5_Witness ==
  /\ fs[ThreadSiblingsList] = File(<<"0", ",", "1", ",", "2", ",", "3", "\n">>)
  /\ fs[SharedCpuList(2)] = File(<<"0", "-", "3", "\n">>)
  /\ ret.call = "getThreads(shared)"
  /\ ret.val = Ok(4)

---------------------------------------------------------------------------
(* parseProcCpuInfo                                                        *)

\* The longest /proc/cpuinfo has MaxFileLines lines
MaxFileLines == 12

LineNoColon == <<"m", "o", "d", "e", "l", " ", "n", "a", "m", "e">>

LineBlankName == <<"m", "o", "d", "e", "l", " ", "n", "a", "m", "e", " ", ":", " ", " ">>

LineOtherCase == <<"M", "o", "d", "e", "l", " ", "n", "a", "m", "e", " ", ":", " ", "C">>

LineIndented == <<" ", "m", "o", "d", "e", "l", " ", "n", "a", "m", "e", " ", ":", " ", "D">>

LineKinds == {LineNameA, LineNameB, LineNoColon, LineBlankName,
              LineOtherCase, LineIndented}

\* The text of the lines, each ended by a newline
RECURSIVE Join(_)
Join(lines) ==
  IF lines = <<>> THEN <<>> ELSE Head(lines) \o NewLine \o Join(Tail(lines))

FillerLines(n) == [k \in 1..n |-> LineProcessor]

\* Files of 3 or MaxFileLines lines, at most two of them not a filler line
CpuInfoLines ==
  UNION { {FillerLines(n)}
          \cup { [FillerLines(n) EXCEPT ![p] = a] :
                   p \in 1..n, a \in LineKinds }
          \cup { [FillerLines(n) EXCEPT ![p] = a, ![q] = b] :
                   p \in 1..n, q \in 1..n, a \in LineKinds, b \in LineKinds }
          : n \in {3, MaxFileLines} }

NameFiles ==
  {NoFile, File(<<>>), File(LineNameA), File(LineProcessor \o NewLine \o LineNameB)}
  \cup { File(Join(lines)) : lines \in CpuInfoLines }

NameHosts == { [NoFiles EXCEPT ![ProcCpuInfo] = f] : f \in NameFiles }

CallParseProcCpuInfo == CallParser("parseProcCpuInfo", parseProcCpuInfo)

NameInit == ParserInit(NameHosts)

NameNext == CallParseProcCpuInfo

SpecName == NameInit /\ [][NameNext]_vars

\* The lines of /proc/cpuinfo that parseProcCpuInfo reads
ReadLines ==
  LET lines == split(fs[ProcCpuInfo].data, "\n") IN
  IF fs[ProcCpuInfo].open
  THEN SubSeq(lines, 1, IF Len(lines) < MaxCpuInfoLines THEN Len(lines)
                        ELSE MaxCpuInfoLines)
  ELSE <<>>

StartsWithModelName(line) ==
  Len(line) >= Len(modelName) /\ SubSeq(line, 1, Len(modelName)) = modelName

HasColon(line) == \E k \in 1..Len(line) : line[k] = ":"

\* The text after the first ':' of the line
AfterColon(line) ==
  LET k == CHOOSE c \in 1..Len(line) :
             line[c] = ":" /\ \A b \in 1..(c - 1) : line[b] # ":"
  IN SubSeq(line, k + 1, Len(line))

IsBlank(t) == \A k \in 1..Len(t) : t[k] = " "

\* t without its leading spaces
Stripped(t) ==
  LET k == CHOOSE c \in 1..Len(t) :
             t[c] # " " /\ \A b \in 1..(c - 1) : t[b] = " "
  IN SubSeq(t, k, Len(t))

\* The original C10: the first line of the first 10 that starts with
\* "model name" decides cpuName, which is the text after its first ':'
\* without leading spaces; no such line leaves cpuName empty.
C10_FirstMatchWins ==
  ret.call = "parseProcCpuInfo" =>
    LET lines == ReadLines
        matches == {k \in 1..Len(lines) : StartsWithModelName(lines[k])}
    IN IF matches = {} THEN ret.val = <<>>
       ELSE LET line == lines[Min(matches)] IN
            HasColon(line) /\ ~IsBlank(AfterColon(line))
              => ret.val = Stripped(AfterColon(line))

\* C10 as amended: the last line of the first 10 that starts with "model
\* name" and holds a ':' decides cpuName, which is the text after that
\* line's first ':' without its leading spaces, or that text as it is when
\* it holds spaces only; without such a line cpuName is empty.  Lines
\* after the 10th never matter.
C10_LastMatchWins ==
  ret.call = "parseProcCpuInfo" =>
    LET lines == ReadLines
        matches == {k \in 1..Len(lines) :
                      StartsWithModelName(lines[k]) /\ HasColon(lines[k])}
    IN IF matches = {} THEN ret.val = <<>>
       ELSE LET last == CHOOSE k \in matches : \A j \in matches : j <= k
                text == AfterColon(lines[last])
            IN ret.val = IF IsBlank(text) THEN text ELSE Stripped(text)

\* Two matching lines among the first 10: the second one is returned
C10_Witness ==
  /\ ret.call = "parseProcCpuInfo"
  /\ \E p, q \in 1..MaxCpuInfoLines :
       /\ p < q
       /\ Len(ReadLines) >= q
       /\ ReadLines[p] = LineNameA
       /\ ReadLines[q] = LineNameB
  /\ ret.val = <<"B", ":", "b">>

---------------------------------------------------------------------------
(* The has* predicates on a constructed object                             *)

\* Values at and next to the bounds lo and hi of a window, and 2^64 - 1
Around(lo, hi) == {0, lo - 1, lo, lo + 1, hi - 1, hi, hi + 1, -1}

SharingValues == {0, 1, 2, 3, 2^10, 2^10 + 1, 2^15 - 1, 2^15, 2^15 + 1, -1}

ThreadsPerCoreValues == {0, 1, 2, 3, 2^10 - 1, 2^10, 2^10 + 1, 2^15, -1}

\* cpuCores_, cpuThreads_, l1CacheSize_, l2CacheSize_, l3CacheSize_ and
\* l3Sharing_: all 0, or one of them at or next to a bound of its window
OtherFields ==
  LET zero == <<0, 0, 0, 0, 0, 0>> IN
  {zero}
  \cup { [zero EXCEPT ![1] = v] : v \in Around(1, 2^20) }
  \cup { [zero EXCEPT ![2] = v] : v \in Around(1, 2^20) }
  \cup { [zero EXCEPT ![3] = v] : v \in Around(2^12, 2^30) }
  \cup { [zero EXCEPT ![4] = v] : v \in Around(2^12, 2^30) }
  \cup { [zero EXCEPT ![5] = v] : v \in Around(2^15, 2^30) }
  \cup { [zero EXCEPT ![6] = v] : v \in Around(1, 2^20) }
  \cup { <<4, 8, 2^15, 2^18, 2^23, 8>>, <<-1, -1, -1, -1, -1, -1>> }

PredInit ==
  /\ fs = NoFiles
  /\ win = NoWin
  /\ cpuName_ = <<>>
  /\ error_ = ""
  /\ l2Sharing_ \in SharingValues
  /\ threadsPerCore_ \in ThreadsPerCoreValues
  /\ \E o \in OtherFields :
       /\ \/ l2Sharing_ \in {0, 2} /\ threadsPerCore_ \in {0, 2}
          \/ o \in {<<0, 0, 0, 0, 0, 0>>, <<4, 8, 2^15, 2^18, 2^23, 8>>,
                    <<-1, -1, -1, -1, -1, -1>>}
       /\ cpuCores_ = o[1]
       /\ cpuThreads_ = o[2]
       /\ l1CacheSize_ = o[3]
       /\ l2CacheSize_ = o[4]
       /\ l3CacheSize_ = o[5]
       /\ l3Sharing_ = o[6]
  /\ pc = "constructed"
  /\ i = 0
  /\ level = 0
  /\ type = <<>>
  /\ ret = NoCall

PredNext == Call

SpecPred == PredInit /\ [][PredNext]_vars

\* The value a field stands for lies in lo..hi (a negative representative
\* stands for a value near 2^64)
InWindow(v, lo, hi) == v \in lo..hi

Returned(f, v) == ret.call = f => ret.val = v

\* The value a stands for is greater than the value b stands for
Exceeds(a, b) ==
  \/ a < 0 /\ b >= 0
  \/ (a < 0) = (b < 0) /\ a > b

\* C1: hasPrivateL2Cache() is true exactly when 1 <= l2Sharing <= 2^15,
\* 1 <= threadsPerCore <= 2^10 and l2Sharing <= threadsPerCore, and
\* hasHyperThreading() exactly when moreover l2Sharing >= 2; so the latter
\* is false when l2Sharing < 2 and the former when l2Sharing >
\* threadsPerCore, whatever the other fields are.
C1_L2Predicates ==
  LET private == /\ InWindow(l2Sharing_, 1, 2^15)
                 /\ InWindow(threadsPerCore_, 1, 2^10)
                 /\ l2Sharing_ <= threadsPerCore_
      hyper == private /\ l2Sharing_ >= 2
  IN /\ hasPrivateL2Cache <=> private
     /\ hasHyperThreading <=> hyper
     /\ Returned("hasPrivateL2Cache", private)
     /\ Returned("hasHyperThreading", hyper)
     /\ l2Sharing_ \in {0, 1} => ~hasHyperThreading
     /\ Exceeds(l2Sharing_, threadsPerCore_) => ~hasPrivateL2Cache

C1_Witness ==
  /\ l2Sharing_ = 2
  /\ threadsPerCore_ = 2
  /\ l3CacheSize_ = 2^30 + 1
  /\ ret.call = "hasHyperThreading"
  /\ ret.val = TRUE

\* C2: each has* range predicate is true exactly when its field lies in
\* its window, bounds included: [4 KiB, 1 GiB] for the L1 and L2 sizes,
\* [32 KiB, 1 GiB] for the L3 size, [1, 2^20] for cores, threads and L3
\* sharing, [1, 2^10] for threads per core, [1, 2^15] for L2 sharing.
C2_RangePredicates ==
  /\ hasL1Cache <=> InWindow(l1CacheSize_, 4 * 1024, 1024 * 1024 * 1024)
  /\ hasL2Cache <=> InWindow(l2CacheSize_, 4 * 1024, 1024 * 1024 * 1024)
  /\ hasL3Cache <=> InWindow(l3CacheSize_, 32 * 1024, 1024 * 1024 * 1024)
  /\ hasCpuCores <=> InWindow(cpuCores_, 1, 1048576)
  /\ hasCpuThreads <=> InWindow(cpuThreads_, 1, 1048576)
  /\ hasThreadsPerCore <=> InWindow(threadsPerCore_, 1, 1024)
  /\ hasL2Sharing <=> InWindow(l2Sharing_, 1, 32768)
  /\ hasL3Sharing <=> InWindow(l3Sharing_, 1, 1048576)
  /\ Returned("hasL1Cache", InWindow(l1CacheSize_, 4 * 1024, 1024 * 1024 * 1024))
  /\ Returned("hasL2Cache", InWindow(l2CacheSize_, 4 * 1024, 1024 * 1024 * 1024))
  /\ Returned("hasL3Cache", InWindow(l3CacheSize_, 32 * 1024, 1024 * 1024 * 1024))
  /\ Returned("hasCpuCores", InWindow(cpuCores_, 1, 1048576))
  /\ Returned("hasCpuThreads", InWindow(cpuThreads_, 1, 1048576))
  /\ Returned("hasThreadsPerCore", InWindow(threadsPerCore_, 1, 1024))
  /\ Returned("hasL2Sharing", InWindow(l2Sharing_, 1, 32768))
  /\ Returned("hasL3Sharing", InWindow(l3Sharing_, 1, 1048576))

\* The L3 size one byte below its lower bound: hasL3Cache() returns false
C2_Witness ==
  /\ l3CacheSize_ = 32 * 1024 - 1
  /\ ret.call = "hasL3Cache"
  /\ ret.val = FALSE

---------------------------------------------------------------------------
(* The Windows CpuInfo::init()                                             *)
(*                                                                         *)
(* win.glpi / win.glpiex: GetProcAddress finds GetLogicalProcessor-        *)
(* Information / ...Ex (the latter is compiled in from Windows 7 on);      *)
(* win.info / win.infoEx: the records the call returns (none: bytes = 0);  *)
(* win.glpiOk / win.glpiexOk: the call that fills the buffer succeeds.     *)

\* A SYSTEM_LOGICAL_PROCESSOR_INFORMATION of a physical core
CoreInfo(mask) ==
  [Relationship |-> "RelationProcessorCore", ProcessorMask |-> mask,
   Cache |-> [Level |-> 0, Type |-> "CacheUnified", Size |-> 0]]

\* A SYSTEM_LOGICAL_PROCESSOR_INFORMATION of a cache
CacheInfo(lv, ty, size) ==
  [Relationship |-> "RelationCache", ProcessorMask |-> 0,
   Cache |-> [Level |-> lv, Type |-> ty, Size |-> size]]

\* A SYSTEM_LOGICAL_PROCESSOR_INFORMATION_EX of a cache
CacheInfoEx(lv, ty, group, mask) ==
  [Relationship |-> "RelationCache",
   Cache |-> [Level |-> lv, Type |-> ty,
              GroupMask |-> [Group |-> group, Mask |-> mask]]]

\* A SYSTEM_LOGICAL_PROCESSOR_INFORMATION_EX of another relationship
OtherInfoEx ==
  [Relationship |-> "RelationProcessorCore",
   Cache |-> [Level |-> 0, Type |-> "CacheUnified",
              GroupMask |-> [Group |-> 0, Mask |-> 0]]]

IsDataOrUnifiedCache(c) == c.Type = "CacheData" \/ c.Type = "CacheUnified"

\* if (!glpi) return; glpi(0, &bytes); if (!bytes) return;
\* if (!glpi(&info[0], &bytes)) return;
WinGlpi ==
  /\ pc = "glpi"
  /\ IF ~win.glpi \/ win.info = <<>> \/ ~win.glpiOk
     THEN pc' = "constructed"
     ELSE pc' = "infoLoop"
  /\ i' = 0
  /\ UNCHANGED <<fs, win, cpuName_, cpuCores_, cpuThreads_, l1CacheSize_,
                 l2CacheSize_, l3CacheSize_, l2Sharing_, l3Sharing_,
                 threadsPerCore_, error_, level, type, ret>>

\* for (size_t i = 0; i < size; i++): the body for info[i]
WinInfoLoop ==
  /\ pc = "infoLoop"
  /\ IF i < Len(win.info)
     THEN LET r == win.info[i + 1]
              core == r.Relationship = "RelationProcessorCore"
              cache == r.Relationship = "RelationCache"
                       /\ IsDataOrUnifiedCache(r.Cache)
              bits == ClearBits(r.ProcessorMask, 0)
          IN /\ cpuCores_' = IF core THEN cpuCores_ + 1 ELSE cpuCores_
             /\ cpuThreads_' = IF core THEN cpuThreads_ + bits
                               ELSE cpuThreads_
             /\ threadsPerCore_' = IF core THEN bits ELSE threadsPerCore_
             /\ l1CacheSize_' = IF cache /\ r.Cache.Level = 1
                                THEN r.Cache.Size ELSE l1CacheSize_
             /\ l2CacheSize_' = IF cache /\ r.Cache.Level = 2
                                THEN r.Cache.Size ELSE l2CacheSize_
             /\ l3CacheSize_' = IF cache /\ r.Cache.Level = 3
                                THEN r.Cache.Size ELSE l3CacheSize_
             /\ i' = i + 1
             /\ pc' = pc
     ELSE /\ pc' = "inferSharing"
          /\ UNCHANGED <<cpuCores_, cpuThreads_, threadsPerCore_,
                         l1CacheSize_, l2CacheSize_, l3CacheSize_, i>>
  /\ UNCHANGED <<fs, win, cpuName_, l2Sharing_, l3Sharing_, error_, level,
                 type, ret>>

\* if (hasL3Cache()) { l2Sharing_ = threadsPerCore_;
\*                     l3Sharing_ = cpuThreads_; }
WinInferSharing ==
  /\ pc = "inferSharing"
  /\ l2Sharing_' = IF hasL3Cache THEN threadsPerCore_ ELSE l2Sharing_
  /\ l3Sharing_' = IF hasL3Cache THEN cpuThreads_ ELSE l3Sharing_
  /\ pc' = "glpiex"
  /\ UNCHANGED <<fs, win, cpuName_, cpuCores_, cpuThreads_, l1CacheSize_,
                 l2CacheSize_, l3CacheSize_, threadsPerCore_, error_, i,
                 level, type, ret>>

\* if (!glpiex) return; glpiex(RelationAll, 0, &bytes);
\* if (!bytes) return; if (!glpiex(RelationAll, ..., &bytes)) return;
WinGlpiex ==
  /\ pc = "glpiex"
  /\ IF ~win.glpiex \/ win.infoEx = <<>> \/ ~win.glpiexOk
     THEN pc' = "constructed"
     ELSE pc' = "infoExLoop"
  /\ i' = 0
  /\ UNCHANGED <<fs, win, cpuName_, cpuCores_, cpuThreads_, l1CacheSize_,
                 l2CacheSize_, l3CacheSize_, l2Sharing_, l3Sharing_,
                 threadsPerCore_, error_, level, type, ret>>

\* A data or unified cache of the level in processor group 0
IsGroup0Cache(cpu, lv) ==
  /\ cpu.Relationship = "RelationCache"
  /\ cpu.Cache.GroupMask.Group = 0
  /\ cpu.Cache.Level = lv
  /\ IsDataOrUnifiedCache(cpu.Cache)

\* for (size_t i = 0; i < bytes; i += cpu->Size): the body for the i-th
\* record, with its two breaks
WinInfoExLoop ==
  /\ pc = "infoExLoop"
  /\ IF i < Len(win.infoEx)
     THEN LET cpu == win.infoEx[i + 1] IN
          IF IsGroup0Cache(cpu, 2)
          THEN /\ l2Sharing_' = ClearBits(cpu.Cache.GroupMask.Mask, 0)
               /\ pc' = "constructed"
               /\ UNCHANGED <<l3Sharing_, i>>
          ELSE IF IsGroup0Cache(cpu, 3)
          THEN /\ l3Sharing_' = ClearBits(cpu.Cache.GroupMask.Mask, 0)
               /\ pc' = "constructed"
               /\ UNCHANGED <<l2Sharing_, i>>
          ELSE /\ i' = i + 1
               /\ pc' = pc
               /\ UNCHANGED <<l2Sharing_, l3Sharing_>>
     ELSE /\ pc' = "constructed"
          /\ UNCHANGED <<l2Sharing_, l3Sharing_, i>>
  /\ UNCHANGED <<fs, win, cpuName_, cpuCores_, cpuThreads_, l1CacheSize_,
                 l2CacheSize_, l3CacheSize_, threadsPerCore_, error_,
                 level, type, ret>>

\* The longest extended enumeration has MaxExRecords records
MaxExRecords == 3

ExRecords ==
  { CacheInfoEx(1, "CacheData", 0, 3),
    CacheInfoEx(2, "CacheUnified", 0, 3),
    CacheInfoEx(2, "CacheUnified", 1, 48),
    CacheInfoEx(3, "CacheUnified", 0, 255),
    CacheInfoEx(3, "CacheInstruction", 0, 15),
    OtherInfoEx }

ExEnumerations ==
  UNION { [1..n -> ExRecords] : n \in 0..MaxExRecords }

\* Two cores of two threads each with L1, L2 and L3 caches; the same
\* without an L3 cache; one core of one thread; nothing
Enumerations ==
  { << CoreInfo(3), CacheInfo(1, "CacheData", 32768),
       CacheInfo(1, "CacheInstruction", 32768),
       CacheInfo(2, "CacheUnified", 262144), CoreInfo(12),
       CacheInfo(3, "CacheUnified", 8388608) >>,
    << CoreInfo(3), CacheInfo(1, "CacheData", 32768),
       CacheInfo(2, "CacheUnified", 262144), CoreInfo(12) >>,
    << CoreInfo(1) >>,
    << >> }

\* The calls' outcomes: all succeed, or one of them fails
ApiOutcomes ==
  { <<TRUE, TRUE, TRUE, TRUE>>, <<FALSE, TRUE, TRUE, TRUE>>,
    <<TRUE, FALSE, TRUE, TRUE>>, <<TRUE, TRUE, FALSE, TRUE>>,
    <<TRUE, TRUE, TRUE, FALSE>> }

WinHosts ==
  { [glpi |-> o[1], glpiOk |-> o[2], glpiex |-> o[3], glpiexOk |-> o[4],
     info |-> e, infoEx |-> x] :
      o \in ApiOutcomes, e \in Enumerations, x \in ExEnumerations }

WinInit ==
  /\ fs = NoFiles
  /\ win \in WinHosts
  /\ Constructed0
  /\ pc = "glpi"
  /\ i = 0
  /\ level = 0
  /\ type = <<>>
  /\ ret = NoCall

WinNext ==
  \/ WinGlpi
  \/ WinInfoLoop
  \/ WinInferSharing
  \/ WinGlpiex
  \/ WinInfoExLoop
  \/ Call

SpecWin == WinInit /\ [][WinNext]_vars

\* The set bits of a mask
BitsOf(mask) == Cardinality({b \in 0..15 : (mask \div (2^b)) % 2 = 1})

\* The first group-0 data or unified cache record of the level in the
\* extended enumeration
FirstGroup0Cache(lv) ==
  win.infoEx[Min({k \in 1..Len(win.infoEx) :
                    IsGroup0Cache(win.infoEx[k], lv)})]

\* The probe got as far as reading the extended enumeration
ExtendedEnumerationRead ==
  /\ win.glpi /\ win.info # <<>> /\ win.glpiOk
  /\ win.glpiex /\ win.infoEx # <<>> /\ win.glpiexOk

\* C9: when the extended enumeration holds a group-0 data or unified cache
\* record of level 2 and one of level 3, in any order, the probe leaves
\* l2Sharing at the set bits of the first such level-2 record's mask and
\* l3Sharing at the set bits of the first such level-3 record's mask.
C9_BothLevelsRefined ==
  /\ pc = "constructed"
  /\ ExtendedEnumerationRead
  /\ \E k \in 1..Len(win.infoEx) : IsGroup0Cache(win.infoEx[k], 2)
  /\ \E k \in 1..Len(win.infoEx) : IsGroup0Cache(win.infoEx[k], 3)
  => /\ l2Sharing_ = BitsOf(FirstGroup0Cache(2).Cache.GroupMask.Mask)
     /\ l3Sharing_ = BitsOf(FirstGroup0Cache(3).Cache.GroupMask.Mask)

====
